---- MODULE Spec2Model ----
(***************************************************************************)
(* State-machine model of the trendpulse analytics core:                   *)
(*   backend/features/calculator.py  (Feature Calculator)                  *)
(*   backend/ml/processor.py         (embeddings, duplicates, clusters)    *)
(*   backend/api/refresh.py          (POST /api/refresh orchestration)     *)
(*   backend/database/db.py          (tables, one shared connection)       *)
(*                                                                         *)
(* Numbers.  Python floats are modelled in fixed point:                    *)
(*   time           : integers, one unit = 0.01 hour                       *)
(*   views per hour : integers, one unit = 0.01 view/hour                  *)
(*   scores, rates  : integers, one unit = 0.0001                          *)
(* Division is floor division on these integers.                           *)
(***************************************************************************)
EXTENDS Integers, Sequences, FiniteSets, TLC

-----------------------------------------------------------------------------
(* Bounds of the model                                                     *)

\* number of video ids the ingestion collaborators can deliver
MaxVideos == 4

\* number of POST /api/refresh invocations over the life of the process
MaxInvocations == 3

\* the two request slots that can be in flight at once
Runs == {"r1", "r2"}

-----------------------------------------------------------------------------
(* Program constants                                                       *)

freshness_decay_hours == 48
engagement_weights_likes == 1
engagement_weights_comments == 2
clustering_min_samples == 3
\* clustering_eps = 0.3 and dedup_similarity_threshold = 0.95, in hundredths
clustering_eps_pct == 30
dedup_similarity_threshold_pct == 95
max_features == 512
min_desired_clusters == 10
\* the 0.1 hour floor of calculate_views_per_hour, in time units
min_hours_elapsed == 10
\* the +-24 hour peer window, in hours
peer_window_hours == 24
\* the peer count above which the z-score path is taken
peer_count_threshold == 2
\* the fixed scale of the fallback normalisation (views_per_hour / 1000)
fallback_vph_scale == 1000
\* the z-score clip, and the weights of the trend score in tenths
z_clip == 3
weight_views_tenths == 5
weight_engagement_tenths == 3
weight_freshness_tenths == 2
engagement_scale_factor == 10
\* the 0.01 floor of the peer standard deviation, in views-per-hour units
std_floor == 1

\* fixed-point resolutions
HourUnits == 10 * 10
VphUnits == 10 * 10
ScoreUnits == 10 * 10 * 10 * 10

-----------------------------------------------------------------------------
(* Arithmetic helpers                                                      *)

Min(a, b) == IF a <= b THEN a ELSE b
Max(a, b) == IF a >= b THEN a ELSE b

RECURSIVE SumSeq(_)
SumSeq(s) == IF s = <<>> THEN 0 ELSE Head(s) + SumSeq(Tail(s))

RECURSIVE SqrtSearch(_, _, _)
\* largest r in lo..hi with r*r <= n  (requires lo*lo <= n)
SqrtSearch(n, lo, hi) ==
  IF lo >= hi THEN lo
  ELSE LET mid == (lo + hi + 1) \div 2
       IN IF mid * mid <= n THEN SqrtSearch(n, mid, hi)
                            ELSE SqrtSearch(n, lo, mid - 1)

\* variance ** 0.5 on the fixed-point grid
ISqrt(n) == SqrtSearch(n, 0, Min(n, 46340))

\* 10000 * exp(-2^k / 48) for k = 0..9 : exp(-h/48) by binary powers
ExpPow2 == <<9794, 9592, 9200, 8465, 7165, 5134, 2636, 695, 48, 0>>

RECURSIVE ExpDecayBits(_, _)
ExpDecayBits(h, k) ==
  IF h = 0 THEN ScoreUnits
  ELSE IF k > Len(ExpPow2) THEN 0
  ELSE LET rest == ExpDecayBits(h \div 2, k + 1)
       IN IF h % 2 = 1 THEN (rest * ExpPow2[k]) \div ScoreUnits ELSE rest

\* math.exp(-hours / 48) for whole hours (negative hours give values > 1)
ExpDecay(hours) ==
  IF hours >= 0 THEN ExpDecayBits(hours, 1)
  ELSE LET d == ExpDecayBits(-hours, 1)
       IN IF d = 0 THEN ScoreUnits * ScoreUnits
                   ELSE (ScoreUnits * ScoreUnits) \div d

-----------------------------------------------------------------------------
(* Results of operations that can raise                                    *)

Returned(v) == [ok |-> TRUE, val |-> v]
Raised(e) == [ok |-> FALSE, exc |-> e]

\* ascending sequence of a finite set of integers (rows in rowid order)
RECURSIVE SortedSeq(_)
SortedSeq(S) ==
  IF S = {} THEN <<>>
  ELSE LET m == CHOOSE x \in S : \A y \in S : x <= y
       IN <<m>> \o SortedSeq(S \ {m})

SeqToSet(s) == {s[i] : i \in 1..Len(s)}

-----------------------------------------------------------------------------
(* FeatureCalculator                                                       *)
(* A videos row is a record                                                *)
(*   [video_id, published_ok, published_t, view_count, like_count,         *)
(*    comment_count, category_id, terms]                                   *)
(* published_ok is FALSE for a published_at string on which                *)
(* datetime.fromisoformat(...) or the subtraction from the timezone-aware  *)
(* current time raises (an empty string, a naive timestamp).               *)

\* calculate_views_per_hour: view_count / max(hours_elapsed, 0.1)
calculate_views_per_hour(view_count, published_ok, published_t, current_time) ==
  IF ~published_ok THEN Raised("ValueError")
  ELSE LET elapsed == current_time - published_t
           hours_elapsed == IF elapsed < min_hours_elapsed
                            THEN min_hours_elapsed ELSE elapsed
       IN Returned((view_count * VphUnits * HourUnits) \div hours_elapsed)

\* calculate_engagement_rate
calculate_engagement_rate(view_count, like_count, comment_count) ==
  IF view_count = 0 THEN 0
  ELSE LET weighted_engagement ==
             like_count * engagement_weights_likes
             + comment_count * engagement_weights_comments
       IN (weighted_engagement * ScoreUnits) \div view_count

\* the decay of calculate_freshness_score left as exp(...) gives it
calculate_freshness_score_unclamped(published_ok, published_t, current_time) ==
  IF ~published_ok THEN Raised("ValueError")
  ELSE Returned(ExpDecay((current_time - published_t) \div HourUnits))

\* calculate_freshness_score: max(0, min(1, exp(-hours_elapsed / decay)))
calculate_freshness_score(published_ok, published_t, current_time) ==
  IF ~published_ok THEN Raised("ValueError")
  ELSE LET hours_elapsed == (current_time - published_t) \div HourUnits
           freshness == ExpDecay(hours_elapsed)
       IN Returned(Max(0, Min(ScoreUnits, freshness)))

\* the rows of the peer query: same category, published within +-24h,
\* another video_id (a published_at that is no timestamp is never BETWEEN)
PeerRows(video_id, category_id, published_t, tbl) ==
  {p \in tbl :
     /\ p.category_id = category_id
     /\ p.published_ok
     /\ p.published_t >= published_t - peer_window_hours * HourUnits
     /\ p.published_t <= published_t + peer_window_hours * HourUnits
     /\ p.video_id # video_id}

\* v.view_count / ((julianday('now') - julianday(v.published_at)) * 24):
\* no floor on the elapsed time; SQLite yields NULL on division by zero
SqlVph(p, sql_now) ==
  LET elapsed == sql_now - p.published_t
  IN IF elapsed = 0 THEN [null |-> TRUE, vph |-> 0]
     ELSE [null |-> FALSE,
           vph |-> (p.view_count * VphUnits * HourUnits) \div elapsed]

PeerVphList(peers, sql_now) ==
  LET ids == SortedSeq({p.video_id : p \in peers})
  IN [i \in 1..Len(ids) |->
        SqlVph(CHOOSE p \in peers : p.video_id = ids[i], sql_now)]

\* SELECT AVG(vph), COUNT(*): AVG skips NULLs and is NULL over none
PeerStats(peers, sql_now) ==
  LET all == PeerVphList(peers, sql_now)
      vals == SelectSeq(all, LAMBDA r : ~r.null)
  IN [peer_count |-> Cardinality(peers),
      avg_null |-> vals = <<>>,
      avg_vph |-> IF vals = <<>> THEN 0
                  ELSE SumSeq([i \in 1..Len(vals) |-> vals[i].vph]) \div Len(vals)]

Abs(a) == IF a < 0 THEN -a ELSE a

\* a * b / c for 0 < b, 0 < c and |a| < 3 * c, evaluated like a float: the
\* operands are scaled down when the exact product would not fit the integers
MulDiv(a, b, c) ==
  LET s == (Abs(a) \div (2000000000 \div b)) + 1
  IN ((a \div s) * b) \div Max(1, c \div s)

\* (sum((x - avg) ** 2) / len) ** 0.5 over the peers' views per hour,
\* scaled like a float when the squares would not fit the integers
PopulationStd(values, avg) ==
  LET n == Len(values)
      d == [i \in 1..n |-> values[i] - avg]
      m == SumSeq([i \in 1..n |-> Abs(d[i])])
      s == (m \div (46340 \div n)) + 1
  IN ISqrt(SumSeq([i \in 1..n |-> (d[i] \div s) * (d[i] \div s)]) \div n) * s

\* (z_views + 3) / 6 with z_views = clip((own - avg) / std, -3, 3)
ZScoreNormalized(views_per_hour, avg_vph, std_vph) ==
  LET d == views_per_hour - avg_vph
      z_views == IF d >= z_clip * std_vph THEN z_clip * ScoreUnits
                 ELSE IF d <= -(z_clip * std_vph) THEN -(z_clip * ScoreUnits)
                 ELSE MulDiv(d, ScoreUnits, std_vph)
  IN (z_views + z_clip * ScoreUnits) \div (2 * z_clip)

\* min(1.0, views_per_hour / 1000)
FallbackNormalized(views_per_hour) ==
  IF views_per_hour >= fallback_vph_scale * VphUnits THEN ScoreUnits
  ELSE (views_per_hour * ScoreUnits) \div (fallback_vph_scale * VphUnits)

\* min(1.0, engagement_rate * 10)
ScaledEngagement(engagement_rate) ==
  IF engagement_rate >= ScoreUnits \div engagement_scale_factor THEN ScoreUnits
  ELSE engagement_rate * engagement_scale_factor

\* the weighted combination of lines 180-184
WeightedTrendScore(normalized_views, engagement_rate, freshness_score) ==
  (normalized_views * weight_views_tenths
   + ScaledEngagement(engagement_rate) * weight_engagement_tenths
   + freshness_score * weight_freshness_tenths) \div 10

\* calculate_trend_score_with_normalization
calculate_trend_score_with_normalization(video_id, views_per_hour, engagement_rate, freshness_score, category_id, published_t, tbl, sql_now) ==
  LET peers == PeerRows(video_id, category_id, published_t, tbl)
      peer_stats == PeerStats(peers, sql_now)
      vph_list == PeerVphList(peers, sql_now)
  IN IF peer_stats.peer_count > peer_count_threshold
     THEN LET avg_vph == IF peer_stats.avg_null \/ peer_stats.avg_vph = 0
                         THEN views_per_hour ELSE peer_stats.avg_vph
          IN IF \E i \in 1..Len(vph_list) : vph_list[i].null
             THEN Raised("TypeError")
             ELSE
               LET raw_std ==
                     IF Len(vph_list) > 1
                     THEN PopulationStd(
                            [i \in 1..Len(vph_list) |-> vph_list[i].vph],
                            avg_vph)
                     ELSE VphUnits
                   std_vph == IF raw_std < std_floor THEN VphUnits ELSE raw_std
                   normalized_views ==
                     ZScoreNormalized(views_per_hour, avg_vph, std_vph)
               IN Returned(
                    [trend_score |-> WeightedTrendScore(
                        normalized_views, engagement_rate, freshness_score),
                     path |-> "zscore",
                     normalized_views |-> normalized_views,
                     peer_avg_null |-> avg_vph = 0,
                     peer_avg_views |-> avg_vph,
                     peer_std_views |-> std_vph])
     ELSE LET normalized_views == FallbackNormalized(views_per_hour)
          IN Returned(
               [trend_score |-> WeightedTrendScore(
                   normalized_views, engagement_rate, freshness_score),
                path |-> "fallback",
                normalized_views |-> normalized_views,
                peer_avg_null |-> views_per_hour = 0,
                peer_avg_views |-> views_per_hour,
                peer_std_views |-> VphUnits])

\* one iteration of the loop of compute_all_features (lines 218-268):
\* the video_metrics row it would upsert, or the exception it raises
MetricsRow(video, tbl, current_time, sql_now) ==
  LET vph == calculate_views_per_hour(
               video.view_count, video.published_ok, video.published_t,
               current_time)
      engagement_rate == calculate_engagement_rate(
               video.view_count, video.like_count, video.comment_count)
      fresh == calculate_freshness_score(
               video.published_ok, video.published_t, current_time)
  IN IF ~vph.ok THEN vph
     ELSE IF ~fresh.ok THEN fresh
     ELSE
       LET trend_data == calculate_trend_score_with_normalization(
               video.video_id, vph.val, engagement_rate, fresh.val,
               video.category_id, video.published_t, tbl, sql_now)
       IN IF ~trend_data.ok THEN trend_data
          ELSE Returned(
                 [video_id |-> video.video_id,
                  views_per_hour |-> vph.val,
                  engagement_rate |-> engagement_rate,
                  freshness_score |-> fresh.val,
                  trend_score |-> trend_data.val.trend_score,
                  path |-> trend_data.val.path,
                  peer_avg_null |-> trend_data.val.peer_avg_null,
                  peer_avg_views |-> trend_data.val.peer_avg_views,
                  peer_std_views |-> trend_data.val.peer_std_views,
                  calculated_at |-> current_time])

-----------------------------------------------------------------------------
(* VideoMLProcessor: TF-IDF embeddings                                     *)
(* A text (title + description[:500]) is the set of its terms, the         *)
(* unigrams and bigrams left after stop-word removal.  A vector has one    *)
(* entry per vocabulary term, in term order; the tf-idf weight of a term   *)
(* is kept as 1 when the term occurs in the text and 0 when it does not.   *)

\* number of texts of the corpus a term occurs in
TermFrequency(t, texts) == Cardinality({i \in 1..Len(texts) : t \in texts[i]})

\* _fit_vectorizer: the vocabulary learnt from the corpus, at most
\* max_features terms (the most frequent ones), or the ValueError that
\* TfidfVectorizer.fit raises on an empty vocabulary
fit_vectorizer(texts) ==
  LET all == UNION {texts[i] : i \in 1..Len(texts)}
      Before(u, t) == \/ TermFrequency(u, texts) > TermFrequency(t, texts)
                      \/ /\ TermFrequency(u, texts) = TermFrequency(t, texts)
                         /\ u < t
      kept == IF Cardinality(all) <= max_features THEN all
              ELSE {t \in all :
                      Cardinality({u \in all : Before(u, t)}) < max_features}
  IN IF all = {} THEN Raised("ValueError") ELSE Returned(SortedSeq(kept))

\* vectorizer.transform(texts).toarray(): one row per text, one column per
\* vocabulary term
transform(vocabulary, texts) ==
  [i \in 1..Len(texts) |->
     [k \in 1..Len(vocabulary) |-> IF vocabulary[k] \in texts[i] THEN 1 ELSE 0]]

\* generate_embeddings_batch: fit when the processor has no vectorizer yet
\* (vectorizer = <<>> stands for None), then transform
generate_embeddings_batch(vectorizer, texts) ==
  IF vectorizer = <<>>
  THEN LET fit == fit_vectorizer(texts)
       IN IF ~fit.ok THEN fit
          ELSE Returned([vectorizer |-> fit.val,
                         embeddings |-> transform(fit.val, texts)])
  ELSE Returned([vectorizer |-> vectorizer,
                 embeddings |-> transform(vectorizer, texts)])

-----------------------------------------------------------------------------
(* Similarity.  Similarities are integers in hundredths, rounded down, so  *)
(* that sim >= t in the model iff the real similarity is >= t / 100.       *)

SimUnits == 10 * 10

Dot(a, b) == SumSeq([k \in 1..Len(a) |-> a[k] * b[k]])

\* sklearn cosine_similarity of two rows (0 when one of them is all zero)
Cosine(a, b) ==
  LET na == Dot(a, a)
      nb == Dot(b, b)
      d == Dot(a, b)
  IN IF na = 0 \/ nb = 0 THEN 0
     ELSE ISqrt((d * d * SimUnits * SimUnits) \div (na * nb))

\* np.array([...]) over the stored rows: a matrix only when all rows have
\* one length; ragged rows make the similarity / clustering call raise
Stackable(rows) ==
  \A i, j \in 1..Len(rows) : Len(rows[i].embedding) = Len(rows[j].embedding)

cosine_similarity(rows) ==
  [i \in 1..Len(rows) |->
     [j \in 1..Len(rows) |-> Cosine(rows[i].embedding, rows[j].embedding)]]

-----------------------------------------------------------------------------
(* VideoMLProcessor.detect_duplicates, lines 124-161                       *)

MaxOver(S) == CHOOSE x \in S : \A y \in S : y <= x

\* the indices at or over the threshold, i itself among them
SimilarIndicesWithSelf(i, n, similarity_matrix, threshold) ==
  SortedSeq({idx \in 1..n : similarity_matrix[i][idx] >= threshold})

\* np.where(similarity_matrix[i] >= threshold)[0] without i itself
SimilarIndices(i, n, similarity_matrix, threshold) ==
  SortedSeq({idx \in 1..n : similarity_matrix[i][idx] >= threshold /\ idx # i})

RECURSIVE DuplicateLoop(_, _, _, _, _, _)
DuplicateLoop(i, video_ids, similarity_matrix, threshold, processed, groups) ==
  IF i > Len(video_ids) THEN groups
  ELSE IF video_ids[i] \in processed
  THEN DuplicateLoop(i + 1, video_ids, similarity_matrix, threshold,
                     processed, groups)
  ELSE
    LET similar_indices ==
          SimilarIndices(i, Len(video_ids), similarity_matrix, threshold)
        duplicates == [k \in 1..Len(similar_indices) |->
                         video_ids[similar_indices[k]]]
    IN IF similar_indices = <<>>
       THEN DuplicateLoop(i + 1, video_ids, similarity_matrix, threshold,
                          processed, groups)
       ELSE DuplicateLoop(
              i + 1, video_ids, similarity_matrix, threshold,
              processed \cup {video_ids[i]} \cup SeqToSet(duplicates),
              Append(groups,
                     [primary_video_id |-> video_ids[i],
                      duplicate_video_ids |-> duplicates,
                      similarity_score |->
                        MaxOver({similarity_matrix[i][idx] :
                                   idx \in SeqToSet(similar_indices)})]))

\* the groups detect_duplicates emits, in the order it inserts them
DuplicateGroups(video_ids, similarity_matrix, threshold) ==
  DuplicateLoop(1, video_ids, similarity_matrix, threshold, {}, <<>>)

\* threshold = threshold or settings.dedup_similarity_threshold
EffectiveThreshold(threshold) ==
  IF threshold = 0 THEN dedup_similarity_threshold_pct ELSE threshold

\* a detection without the early return of line 110 that pairs a lone
\* video with itself
detect_duplicates_without_guard(embeddings_data, threshold) ==
  IF Len(embeddings_data) = 1
  THEN Returned(<<[primary_video_id |-> embeddings_data[1].video_id,
                   duplicate_video_ids |-> <<embeddings_data[1].video_id>>,
                   similarity_score |-> SimUnits]>>)
  ELSE IF ~Stackable(embeddings_data) THEN Raised("ValueError")
  ELSE Returned(DuplicateGroups(
                  [k \in 1..Len(embeddings_data) |->
                     embeddings_data[k].video_id],
                  cosine_similarity(embeddings_data),
                  EffectiveThreshold(threshold)))

\* detect_duplicates lines 99-164 on the fetched rows: the groups it
\* returns (and inserts, one row each), or the exception it raises
detect_duplicates(embeddings_data, threshold) ==
  LET video_ids == [k \in 1..Len(embeddings_data) |->
                      embeddings_data[k].video_id]
  IN IF Len(embeddings_data) < 2 THEN Returned(<<>>)
     ELSE IF ~Stackable(embeddings_data) THEN Raised("ValueError")
     ELSE Returned(DuplicateGroups(video_ids,
                                   cosine_similarity(embeddings_data),
                                   EffectiveThreshold(threshold)))

-----------------------------------------------------------------------------
(* VideoMLProcessor.cluster_videos: labels, lines 201-221                  *)

\* the eps-neighbourhood of point i under cosine distance (i included)
Neighbours(i, n, similarity_matrix, eps) ==
  {j \in 1..n : similarity_matrix[i][j] >= SimUnits - eps}

CorePoints(n, similarity_matrix, eps, min_samples) ==
  {i \in 1..n :
     Cardinality(Neighbours(i, n, similarity_matrix, eps)) >= min_samples}

RECURSIVE ExpandCluster(_, _, _, _, _, _)
\* the points density-reachable from `members` that no earlier cluster took
ExpandCluster(members, taken, n, similarity_matrix, eps, core) ==
  LET reached == UNION {Neighbours(c, n, similarity_matrix, eps) :
                          c \in members \cap core}
      grown == members \cup (reached \ taken)
  IN IF grown = members THEN members
     ELSE ExpandCluster(grown, taken, n, similarity_matrix, eps, core)

RECURSIVE DbscanLoop(_, _, _, _, _, _, _)
DbscanLoop(i, labels, next_label, n, similarity_matrix, eps, core) ==
  IF i > n THEN labels
  ELSE IF labels[i] # -1 \/ i \notin core
  THEN DbscanLoop(i + 1, labels, next_label, n, similarity_matrix, eps, core)
  ELSE
    LET taken == {j \in 1..n : labels[j] # -1}
        members == ExpandCluster({i}, taken, n, similarity_matrix, eps, core)
        \* (@@ makes the checker build the function here, not on demand)
        relabelled == [j \in 1..n |-> IF j \in members THEN next_label
                                      ELSE labels[j]] @@ <<>>
    IN DbscanLoop(i + 1, relabelled, next_label + 1, n, similarity_matrix,
                  eps, core)

\* DBSCAN(eps, min_samples, metric='cosine').fit_predict: -1 is noise
DBSCAN(n, similarity_matrix, eps, min_samples) ==
  DbscanLoop(1, [j \in 1..n |-> -1], 0, n, similarity_matrix, eps,
             CorePoints(n, similarity_matrix, eps, min_samples))

\* the k of line 213 without its cap
FallbackKUncapped(n) == Max(min_desired_clusters, n \div 7)

\* n_clusters = min(14, max(min_desired_clusters, len(video_ids) // 7))
FallbackK(n) == Min(14, Max(min_desired_clusters, n \div 7))

\* KMeans(n_clusters = k, random_state = 42).fit_predict: every point gets
\* one of the labels 0..k-1 and none is noise; the partition itself is the
\* library's and is represented by the round-robin one
KMeans(n, k) == [j \in 1..n |-> (j - 1) % k]

NonNoiseLabels(labels) == {labels[j] : j \in DOMAIN labels} \ {-1}

\* lines 202-216: the algorithm whose labels are kept, its k, the labels
LabelPlan(n, similarity_matrix, eps, min_samples) ==
  LET labels == DBSCAN(n, similarity_matrix, eps, min_samples)
      cluster_count == Cardinality(NonNoiseLabels(labels))
  IN IF cluster_count < min_desired_clusters /\ n >= min_desired_clusters
     THEN [algorithm |-> "kmeans", n_clusters |-> FallbackK(n),
           labels |-> KMeans(n, FallbackK(n))]
     ELSE [algorithm |-> "dbscan", n_clusters |-> 0, labels |-> labels]

\* lines 202-216: the final labels
FinalLabels(n, similarity_matrix, eps, min_samples) ==
  LabelPlan(n, similarity_matrix, eps, min_samples).labels

-----------------------------------------------------------------------------
(* cluster_videos: one cluster, lines 235-244                              *)

\* indices of the rows carrying `label`, ascending
ClusterIndices(label, labels) ==
  SortedSeq({j \in DOMAIN labels : labels[j] = label})

\* m^2 times the squared Euclidean distance of member row x to the centroid
\* of the member rows (m = number of members)
CentroidDistance2(x, member_rows) ==
  LET m == Len(member_rows)
  IN SumSeq([k \in 1..Len(x) |->
               LET s == SumSeq([j \in 1..m |-> member_rows[j][k]])
               IN (m * x[k] - s) * (m * x[k] - s)])

\* np.linalg.norm(cluster_embeddings - centroid, axis=1), in hundredths
CentroidDistances(member_rows) ==
  LET m == Len(member_rows)
  IN [j \in 1..m |->
        ISqrt((CentroidDistance2(member_rows[j], member_rows)
               * SimUnits * SimUnits) \div (m * m))]

\* the first index of a maximal value
ArgMax(values) ==
  CHOOSE j \in 1..Len(values) :
    /\ \A k \in 1..Len(values) : values[j] >= values[k]
    /\ \A k \in 1..(j - 1) : values[k] < values[j]

\* np.argmin: the first index of a minimal value
ArgMin(values) ==
  CHOOSE j \in 1..Len(values) :
    /\ \A k \in 1..Len(values) : values[j] <= values[k]
    /\ \A k \in 1..(j - 1) : values[k] > values[j]

\* what cluster_videos knows of a cluster before it touches the store
ClusterPlan(label, labels, rows) ==
  LET idx == ClusterIndices(label, labels)
      cluster_video_ids == [k \in 1..Len(idx) |-> rows[idx[k]].video_id]
      cluster_embeddings == [k \in 1..Len(idx) |-> rows[idx[k]].embedding]
      exact == [k \in 1..Len(idx) |->
                  CentroidDistance2(cluster_embeddings[k], cluster_embeddings)]
  IN [label |-> label,
      cluster_video_ids |-> cluster_video_ids,
      distances |-> CentroidDistances(cluster_embeddings),
      representative_video_id |-> cluster_video_ids[ArgMin(exact)]]

\* the clusters of the final labels, in ascending label order
ClusterPlans(labels, rows) ==
  LET ls == SortedSeq(NonNoiseLabels(labels))
  IN [k \in 1..Len(ls) |-> ClusterPlan(ls[k], labels, rows)]

\* a result that never counts noise
NoiseCountOmitted(labels) == 0

\* noise_count = list(labels).count(-1), line 220
NoiseCount(labels) == Cardinality({j \in DOMAIN labels : labels[j] = -1})

-----------------------------------------------------------------------------
(* The record store, db.py lines 31-135, and the requests in flight        *)

VARIABLES
  videos,            \* table videos
  video_metrics,     \* table video_metrics   (PRIMARY KEY video_id)
  video_embeddings,  \* table video_embeddings (PRIMARY KEY video_id)
  duplicate_groups,  \* table duplicate_groups (group_id AUTOINCREMENT)
  clusters,          \* table clusters         (cluster_id AUTOINCREMENT)
  video_clusters,    \* table video_clusters   (PRIMARY KEY video_id, cluster_id)
  next_group_id,     \* sqlite_sequence of duplicate_groups
  next_cluster_id,   \* sqlite_sequence of clusters
  invocations,       \* refresh_data invocations started so far
  clock,             \* the wall clock, in hours since the process started
  pc,                \* per request: the await it is suspended at
  ctx,               \* per request: the locals of its coroutines
  snapshot,          \* history: the cluster rows of the last completed run
  fn_in,             \* argument of the function under study (function specs)
  fn_out             \* its result

vars == <<videos, video_metrics, video_embeddings, duplicate_groups, clusters,
          video_clusters, next_group_id, next_cluster_id, invocations, clock,
          pc, ctx, snapshot, fn_in, fn_out>>

tables == <<videos, video_metrics, video_embeddings, duplicate_groups,
            clusters, video_clusters, next_group_id, next_cluster_id>>

\* the videos the ingestion collaborators deliver, by id
PublishedT(id) ==
  CASE id = 1 -> 4000
    [] id = 2 -> 5090
    [] id = 3 -> 5450
    [] OTHER  -> 2000

ViewCount(id) ==
  CASE id = 1 -> 1000
    [] id = 2 -> 50
    [] id = 3 -> 7
    [] OTHER  -> 0

LikeCount(id) ==
  CASE id = 1 -> 40
    [] id = 2 -> 10
    [] OTHER  -> 0

CommentCount(id) == IF id = 1 THEN 5 ELSE 0

Terms(id) ==
  CASE id = 1 -> {1, 2}
    [] id = 2 -> {1, 2, 3}
    [] id = 3 -> {1, 2}
    [] OTHER  -> {4, 5}

\* youtube_ingester.py line 132 stores '' when the API gives no publishedAt;
\* in the model this can happen to video 2
MayLackPublishedAt(id) == id = 2

VideoRow(id, published_ok) ==
  [video_id |-> id, published_ok |-> published_ok,
   published_t |-> PublishedT(id), view_count |-> ViewCount(id),
   like_count |-> LikeCount(id), comment_count |-> CommentCount(id),
   category_id |-> "0", terms |-> Terms(id)]

\* datetime.now(timezone.utc) / julianday('now') at hour n of the process
WallClock(n) == 5000 + n * HourUnits

VideoIds(tbl) == {v.video_id : v \in tbl}

\* rows of a table in rowid order (rows are inserted in video_id order)
RowsInOrder(tbl) ==
  LET ids == SortedSeq(VideoIds(tbl))
  IN [k \in 1..Len(ids) |-> CHOOSE v \in tbl : v.video_id = ids[k]]

\* INSERT OR REPLACE INTO video_metrics: the row of the same key goes
InsertOrReplace(tbl, row) ==
  {m \in tbl : m.video_id # row.video_id} \cup {row}

NoResponse == [status |-> "none", videos_ingested |-> 0,
               features_computed |-> 0, clusters_created |-> 0]

\* the locals of a request that has not started
IdleCtx ==
  [entry |-> "none", resumed |-> "none", interrupted_at |-> "none",
   inv |-> 0, video_count |-> 0, current_time |-> 0,
   queue |-> <<>>,
   snap |-> <<>>, processed |-> 0, emb_videos |-> <<>>, emb_count |-> 0,
   groups |-> <<>>, plans |-> <<>>, members |-> <<>>, cluster_id |-> 0,
   clusters_info |-> <<>>, noise_count |-> 0, total_videos |-> 0,
   written_clusters |-> {}, written_members |-> {},
   stage |-> "none", exc |-> "none", clustering |-> <<>>, summary |-> <<>>,
   response |-> NoResponse]

Init ==
  /\ videos = {}
  /\ video_metrics = {}
  /\ video_embeddings = {}
  /\ duplicate_groups = {}
  /\ clusters = {}
  /\ video_clusters = {}
  /\ next_group_id = 1
  /\ next_cluster_id = 1
  /\ invocations = 0
  /\ clock = 0
  /\ pc = [r \in Runs |-> "idle"]
  /\ ctx = [r \in Runs |-> IdleCtx]
  /\ snapshot = <<{}, {}>>
  /\ fn_in = <<>>
  /\ fn_out = <<>>

\* refresh_data lines 99-106: any exception becomes HTTP 500
Fail(c, stage, exc) ==
  [c EXCEPT !.stage = stage, !.exc = exc, !.queue = <<>>,
            !.response = [NoResponse EXCEPT !.status = "error"]]

-----------------------------------------------------------------------------
(* refresh_data, refresh.py lines 27-106.  One action runs a request from  *)
(* one storage await to the next; the statement of an await is atomic and  *)
(* at once visible to every other coroutine (one shared connection).       *)

Startable(r) == pc[r] \in {"idle", "done"}

\* the operation a request is in when it is suspended at await `label`
OperationAt(label) ==
  CASE label \in {"feat_fetch", "feat_loop"} -> "features"
    [] label \in {"emb_fetch", "emb_loop"} -> "embeddings"
    [] label \in {"dd_fetch", "dd_loop"} -> "duplicates"
    [] OTHER -> "clustering"

\* the operation the run before this one was interrupted in, if it was
Resumed(c) == IF c.stage = "interrupted" THEN c.interrupted_at ELSE "none"

\* lines 36-76: both ingestions; `fresh` new videos are stored, `again`
\* says the APIs also delivered videos already stored (counted, updated)
NothingIngestedNever(video_count) == FALSE

\* refresh.py line 68: youtube_count + tiktok_count is zero
NothingIngested(video_count) == video_count = 0

RefreshIngest(r) ==
  /\ Startable(r)
  /\ invocations < MaxInvocations
  /\ \E fresh \in 0..(MaxVideos - Cardinality(videos)),
        again \in BOOLEAN, with_published_at \in BOOLEAN :
       LET first == Cardinality(videos) + 1
           new_ids == first..(first + fresh - 1)
           video_count == fresh + (IF again THEN Cardinality(videos) ELSE 0)
           c == [IdleCtx EXCEPT !.entry = "refresh",
                                !.resumed = Resumed(ctx[r]),
                                !.inv = invocations + 1,
                                !.video_count = video_count]
       IN /\ (~with_published_at) => \E id \in new_ids : MayLackPublishedAt(id)
          /\ videos' = videos \cup
               {VideoRow(id, with_published_at \/ ~MayLackPublishedAt(id)) :
                  id \in new_ids}
          /\ invocations' = invocations + 1
          /\ IF NothingIngested(video_count)
             THEN /\ pc' = [pc EXCEPT ![r] = "done"]
                  /\ ctx' = [ctx EXCEPT ![r] =
                       [c EXCEPT !.response =
                          [NoResponse EXCEPT !.status = "warning"]]]
             ELSE /\ pc' = [pc EXCEPT ![r] = "feat_fetch"]
                  /\ ctx' = [ctx EXCEPT ![r] = c]
  /\ UNCHANGED <<video_metrics, video_embeddings, duplicate_groups, clusters,
                 video_clusters, next_group_id, next_cluster_id, clock,
                 snapshot, fn_in, fn_out>>

\* the command-line entry points on the stored videos, without ingestion:
\* run_ml_only.main (run_ml_only.py lines 18-36) and run_full_pipeline when
\* no API key is configured (main.py lines 37-44, 72-86)
CliEntries == {"ml_only", "full_pipeline"}

RunCli(r) ==
  /\ Startable(r)
  /\ invocations < MaxInvocations
  /\ \E entry \in CliEntries :
       ctx' = [ctx EXCEPT ![r] = [IdleCtx EXCEPT !.entry = entry,
                                                 !.resumed = Resumed(ctx[r]),
                                                 !.inv = invocations + 1]]
  /\ invocations' = invocations + 1
  /\ pc' = [pc EXCEPT ![r] = "feat_fetch"]
  /\ UNCHANGED <<tables, clock, snapshot, fn_in, fn_out>>

\* compute_all_features lines 199-216: fetch all videos, read the clock;
\* over an empty store it returns 0, on which the command-line entry points
\* return (refresh_data calls it only after it ingested videos)
FeatureFetch(r) ==
  /\ pc[r] = "feat_fetch"
  /\ IF videos = {}
     THEN /\ pc' = [pc EXCEPT ![r] =
                      IF ctx[r].entry \in CliEntries THEN "done"
                      ELSE "emb_fetch"]
          /\ ctx' = [ctx EXCEPT ![r].processed = 0]
     ELSE /\ pc' = [pc EXCEPT ![r] = "feat_loop"]
          /\ ctx' = [ctx EXCEPT ![r].queue = RowsInOrder(videos),
                                ![r].snap = RowsInOrder(videos),
                                ![r].current_time = WallClock(clock),
                                ![r].processed = 0]
  /\ UNCHANGED <<tables, invocations, clock, snapshot, fn_in, fn_out>>

\* an INSERT that keeps the row of the same key
InsertBeside(tbl, row) == tbl \cup {row}

\* the upsert of compute_all_features, lines 250-266
UpsertMetrics(tbl, row) == InsertOrReplace(tbl, row)

\* compute_all_features lines 218-268: one video of the loop
FeatureVideo(r) ==
  /\ pc[r] = "feat_loop"
  /\ LET video == Head(ctx[r].queue)
         rest == Tail(ctx[r].queue)
         row == MetricsRow(video, videos, ctx[r].current_time,
                           ctx[r].current_time)
     IN IF ~row.ok
        THEN /\ pc' = [pc EXCEPT ![r] = "done"]
             /\ ctx' = [ctx EXCEPT ![r] = Fail(@, "features", row.exc)]
             /\ UNCHANGED video_metrics
        ELSE /\ video_metrics' = UpsertMetrics(video_metrics, row.val)
             /\ pc' = [pc EXCEPT ![r] =
                         IF rest = <<>> THEN "emb_fetch" ELSE "feat_loop"]
             /\ ctx' = [ctx EXCEPT ![r].queue = rest,
                                   ![r].processed = @ + 1]
  /\ UNCHANGED <<videos, video_embeddings, duplicate_groups, clusters,
                 video_clusters, next_group_id, next_cluster_id, invocations,
                 clock, snapshot, fn_in, fn_out>>

\* a query without the LEFT JOIN ... IS NULL filter
AllVideos(vtbl, etbl) == vtbl

\* the query of lines 53-58: videos without a video_embeddings row
VideosWithoutEmbedding(vtbl, etbl) ==
  {v \in vtbl : v.video_id \notin VideoIds(etbl)}

\* a pipeline that goes on to detect_duplicates without its embedding step
EmbeddingSkip(r) ==
  /\ pc[r] = "emb_fetch"
  /\ pc' = [pc EXCEPT ![r] = "dd_fetch"]
  /\ UNCHANGED <<tables, invocations, clock, ctx, snapshot, fn_in, fn_out>>

\* generate_embeddings_for_all_videos lines 50-74, on the fresh processor
\* of run_ml_pipeline (vectorizer None)
EmbeddingFetch(r) ==
  /\ pc[r] = "emb_fetch"
  /\ LET lacking == RowsInOrder(VideosWithoutEmbedding(videos, video_embeddings))
         texts == [k \in 1..Len(lacking) |-> lacking[k].terms]
         batch == generate_embeddings_batch(<<>>, texts)
     IN IF lacking = <<>>
        THEN /\ pc' = [pc EXCEPT ![r] = "dd_fetch"]
             /\ ctx' = [ctx EXCEPT ![r].emb_count = 0,
                                   ![r].emb_videos = <<>>,
                                   ![r].stage = "embedded"]
        ELSE IF ~batch.ok
        THEN /\ pc' = [pc EXCEPT ![r] = "done"]
             /\ ctx' = [ctx EXCEPT ![r] = Fail(@, "embeddings", batch.exc)]
        ELSE /\ pc' = [pc EXCEPT ![r] = "emb_loop"]
             /\ ctx' = [ctx EXCEPT
                  ![r].emb_videos = [k \in 1..Len(lacking) |-> lacking[k].video_id],
                  ![r].queue =
                    [k \in 1..Len(lacking) |->
                       [video_id |-> lacking[k].video_id,
                        embedding |-> batch.val.embeddings[k],
                        model_name |-> "tfidf",
                        created_at |-> WallClock(clock)]]]
  /\ UNCHANGED <<tables, invocations, clock, snapshot, fn_in, fn_out>>

\* INSERT INTO video_embeddings: the PRIMARY KEY refuses a second row
InsertEmbedding(tbl, row) ==
  IF row.video_id \in VideoIds(tbl) THEN Raised("IntegrityError")
  ELSE Returned(tbl \cup {row})

\* lines 75-87: one INSERT of the loop, and the return after the last
EmbeddingInsert(r) ==
  /\ pc[r] = "emb_loop"
  /\ LET row == Head(ctx[r].queue)
         rest == Tail(ctx[r].queue)
         res == InsertEmbedding(video_embeddings, row)
     IN IF ~res.ok
        THEN /\ pc' = [pc EXCEPT ![r] = "done"]
             /\ ctx' = [ctx EXCEPT ![r] = Fail(@, "embeddings", res.exc)]
             /\ UNCHANGED video_embeddings
        ELSE /\ video_embeddings' = res.val
             /\ pc' = [pc EXCEPT ![r] =
                         IF rest = <<>> THEN "dd_fetch" ELSE "emb_loop"]
             /\ ctx' = [ctx EXCEPT
                  ![r].queue = rest,
                  ![r].emb_count =
                    IF rest = <<>> THEN Len(ctx[r].emb_videos) ELSE @,
                  ![r].stage = IF rest = <<>> THEN "embedded" ELSE @]
  /\ UNCHANGED <<videos, video_metrics, duplicate_groups, clusters,
                 video_clusters, next_group_id, next_cluster_id, invocations,
                 clock, snapshot, fn_in, fn_out>>

\* detect_duplicates lines 99-143: fetch all vectors, build the matrix and
\* find the groups (threshold None: the configured one)
DuplicateFetch(r) ==
  /\ pc[r] = "dd_fetch"
  /\ LET found == detect_duplicates(RowsInOrder(video_embeddings), 0)
     IN IF ~found.ok
        THEN /\ pc' = [pc EXCEPT ![r] = "done"]
             /\ ctx' = [ctx EXCEPT ![r] = Fail(@, "duplicates", found.exc)]
        ELSE /\ pc' = [pc EXCEPT ![r] =
                         IF found.val = <<>> THEN "cl_fetch" ELSE "dd_loop"]
             /\ ctx' = [ctx EXCEPT
                  ![r].groups = found.val, ![r].queue = found.val,
                  ![r].stage = IF found.val = <<>> THEN "deduplicated" ELSE @]
  /\ UNCHANGED <<tables, invocations, clock, snapshot, fn_in, fn_out>>

\* an INSERT that first clears the rows of the same primary video
DuplicateInsertReplacing(r) ==
  /\ pc[r] = "dd_loop"
  /\ LET group == Head(ctx[r].queue)
         rest == Tail(ctx[r].queue)
     IN /\ duplicate_groups' =
             {g \in duplicate_groups :
                g.primary_video_id # group.primary_video_id}
             \cup {[group_id |-> next_group_id,
                    primary_video_id |-> group.primary_video_id,
                    duplicate_video_ids |-> group.duplicate_video_ids,
                    similarity_score |-> group.similarity_score,
                    detected_at |-> WallClock(clock)]}
        /\ next_group_id' = next_group_id + 1
        /\ pc' = [pc EXCEPT ![r] =
                    IF rest = <<>> THEN "cl_fetch" ELSE "dd_loop"]
        /\ ctx' = [ctx EXCEPT
             ![r].queue = rest,
             ![r].stage = IF rest = <<>> THEN "deduplicated" ELSE @]
  /\ UNCHANGED <<videos, video_metrics, video_embeddings, clusters,
                 video_clusters, next_cluster_id, invocations, clock,
                 snapshot, fn_in, fn_out>>

\* lines 146-155: the INSERT of one group
DuplicateInsert(r) ==
  /\ pc[r] = "dd_loop"
  /\ LET group == Head(ctx[r].queue)
         rest == Tail(ctx[r].queue)
     IN /\ duplicate_groups' = duplicate_groups \cup
             {[group_id |-> next_group_id,
               primary_video_id |-> group.primary_video_id,
               duplicate_video_ids |-> group.duplicate_video_ids,
               similarity_score |-> group.similarity_score,
               detected_at |-> WallClock(clock)]}
        /\ next_group_id' = next_group_id + 1
        /\ pc' = [pc EXCEPT ![r] =
                    IF rest = <<>> THEN "cl_fetch" ELSE "dd_loop"]
        /\ ctx' = [ctx EXCEPT
             ![r].queue = rest,
             ![r].stage = IF rest = <<>> THEN "deduplicated" ELSE @]
  /\ UNCHANGED <<videos, video_metrics, video_embeddings, clusters,
                 video_clusters, next_cluster_id, invocations, clock,
                 snapshot, fn_in, fn_out>>

\* run_ml_pipeline lines 348-357 and what the caller reads of its result
\* (refresh_data lines 86-95, run_ml_only.py lines 39-40, main.py lines
\* 94-97), once cluster_videos has returned `clustering_results`
MlSummary(c, clustering_results) ==
  IF \/ "cluster_count" \notin DOMAIN clustering_results
     \/ /\ c.entry = "ml_only"
        /\ "videos_clustered" \notin DOMAIN clustering_results
     \/ /\ c.entry = "full_pipeline"
        /\ "noise_count" \notin DOMAIN clustering_results
  THEN [Fail(c, "ml_summary", "KeyError") EXCEPT
          !.clustering = clustering_results]
  ELSE [c EXCEPT
          !.queue = <<>>,
          !.stage = "clustered",
          !.clustering = clustering_results,
          !.summary = [embeddings_generated |-> c.emb_count,
                       duplicate_groups |-> Len(c.groups),
                       clustering |-> clustering_results],
          !.response = [status |-> "success",
                        videos_ingested |-> c.video_count,
                        features_computed |-> c.processed,
                        clusters_created |-> clustering_results.cluster_count]]

\* the return of cluster_videos, lines 308-313
ClusteringResult(c, clusters_info) ==
  [clusters |-> clusters_info,
   cluster_count |-> Len(clusters_info),
   noise_count |-> c.noise_count,
   total_videos |-> c.total_videos]

\* the early return of cluster_videos, line 192
SmallCorpusResult(n) == [clusters |-> <<>>, noise_count |-> n]

\* a guard that lets a corpus one short of min_samples through
TooFewVectorsOffByOne(n) == n + 1 < clustering_min_samples

\* the guard of the early return, line 190
TooFewVectors(n) == n < clustering_min_samples

\* cluster_videos lines 177-223: fetch all vectors and label them
ClusterFetch(r) ==
  /\ pc[r] = "cl_fetch"
  /\ LET embeddings_data == RowsInOrder(video_embeddings)
         n == Len(embeddings_data)
     IN IF TooFewVectors(n)
        THEN /\ pc' = [pc EXCEPT ![r] = "done"]
             /\ ctx' = [ctx EXCEPT ![r] = MlSummary(@, SmallCorpusResult(n))]
        ELSE IF ~Stackable(embeddings_data)
        THEN /\ pc' = [pc EXCEPT ![r] = "done"]
             /\ ctx' = [ctx EXCEPT ![r] = Fail(@, "clustering", "ValueError")]
        ELSE LET labels == FinalLabels(
                             n, cosine_similarity(embeddings_data),
                             clustering_eps_pct, clustering_min_samples)
             IN /\ pc' = [pc EXCEPT ![r] = "cl_delete_memberships"]
                /\ ctx' = [ctx EXCEPT
                     ![r].plans = ClusterPlans(labels, embeddings_data),
                     ![r].noise_count = NoiseCount(labels),
                     ![r].total_videos = n,
                     ![r].clusters_info = <<>>,
                     ![r].written_clusters = {},
                     ![r].written_members = {}]
  /\ UNCHANGED <<tables, invocations, clock, snapshot, fn_in, fn_out>>

\* a rebuild that keeps the membership rows of the run before
ClusterKeepMemberships(r) ==
  /\ pc[r] = "cl_delete_memberships"
  /\ pc' = [pc EXCEPT ![r] = "cl_delete_clusters"]
  /\ UNCHANGED <<tables, invocations, clock, ctx, snapshot, fn_in, fn_out>>

\* line 226: DELETE FROM video_clusters
ClusterDeleteMemberships(r) ==
  /\ pc[r] = "cl_delete_memberships"
  /\ video_clusters' = {}
  /\ pc' = [pc EXCEPT ![r] = "cl_delete_clusters"]
  /\ UNCHANGED <<videos, video_metrics, video_embeddings, duplicate_groups,
                 clusters, next_group_id, next_cluster_id, invocations, clock,
                 ctx, snapshot, fn_in, fn_out>>

\* line 227: DELETE FROM clusters; with no label to persist the run ends
ClusterDeleteClusters(r) ==
  /\ pc[r] = "cl_delete_clusters"
  /\ clusters' = {}
  /\ IF ctx[r].plans = <<>>
     THEN /\ pc' = [pc EXCEPT ![r] = "done"]
          /\ ctx' = [ctx EXCEPT ![r] =
                       MlSummary(@, ClusteringResult(@, <<>>))]
          /\ snapshot' = <<{}, {}>>
     ELSE /\ pc' = [pc EXCEPT ![r] = "cl_insert"]
          /\ UNCHANGED <<ctx, snapshot>>
  /\ UNCHANGED <<videos, video_metrics, video_embeddings, duplicate_groups,
                 video_clusters, next_group_id, next_cluster_id, invocations,
                 clock, fn_in, fn_out>>

\* lines 258-264: SELECT AVG(trend_score) over the members' metrics rows;
\* the aggregate row is always there and holds NULL over no rows
AvgTrendScore(member_ids, mtbl) ==
  LET rows == RowsInOrder({m \in mtbl : m.video_id \in member_ids})
  IN IF rows = <<>> THEN [null |-> TRUE, avg_score |-> 0]
     ELSE [null |-> FALSE,
           avg_score |-> SumSeq([k \in 1..Len(rows) |-> rows[k].trend_score])
                         \div Len(rows)]

\* lines 246-282: read the label and the average, INSERT the clusters row
\* (round(None, 4) raises when no member has a metrics row)
ClusterInsert(r) ==
  /\ pc[r] = "cl_insert"
  /\ LET plan == Head(ctx[r].plans)
         avg == AvgTrendScore(SeqToSet(plan.cluster_video_ids), video_metrics)
         row == [cluster_id |-> next_cluster_id,
                 cluster_label |-> plan.representative_video_id,
                 cluster_size |-> Len(plan.cluster_video_ids),
                 representative_video_id |-> plan.representative_video_id,
                 avg_trend_score |-> avg.avg_score,
                 created_at |-> WallClock(clock)]
     IN IF avg.null
        THEN /\ pc' = [pc EXCEPT ![r] = "done"]
             /\ ctx' = [ctx EXCEPT ![r] = Fail(@, "clustering", "TypeError")]
             /\ UNCHANGED <<clusters, next_cluster_id>>
        ELSE /\ clusters' = clusters \cup {row}
             /\ next_cluster_id' = next_cluster_id + 1
             /\ pc' = [pc EXCEPT ![r] = "cl_members"]
             /\ ctx' = [ctx EXCEPT
                  ![r].cluster_id = next_cluster_id,
                  ![r].members = [k \in 1..Len(plan.cluster_video_ids) |->
                                    [video_id |-> plan.cluster_video_ids[k],
                                     distance |-> plan.distances[k]]],
                  ![r].written_clusters = @ \cup {row}]
  /\ UNCHANGED <<videos, video_metrics, video_embeddings, duplicate_groups,
                 video_clusters, next_group_id, invocations, clock, snapshot,
                 fn_in, fn_out>>

\* lines 285-304: the INSERT of one membership row; after the last member
\* of the last cluster cluster_videos returns
ClusterInsertMember(r) ==
  /\ pc[r] = "cl_members"
  /\ LET member == Head(ctx[r].members)
         rest == Tail(ctx[r].members)
         plan == Head(ctx[r].plans)
         row == [video_id |-> member.video_id,
                 cluster_id |-> ctx[r].cluster_id,
                 distance_to_center |-> member.distance]
         info == [cluster_id |-> ctx[r].cluster_id,
                  cluster_label |-> plan.representative_video_id,
                  size |-> Len(plan.cluster_video_ids),
                  representative_video_id |-> plan.representative_video_id]
         written == ctx[r].written_members \cup {row}
         infos == Append(ctx[r].clusters_info, info)
     IN /\ video_clusters' = video_clusters \cup {row}
        /\ IF rest # <<>>
           THEN /\ pc' = pc
                /\ ctx' = [ctx EXCEPT ![r].members = rest,
                                      ![r].written_members = written]
                /\ UNCHANGED snapshot
           ELSE IF Tail(ctx[r].plans) # <<>>
           THEN /\ pc' = [pc EXCEPT ![r] = "cl_insert"]
                /\ ctx' = [ctx EXCEPT ![r].members = <<>>,
                                      ![r].plans = Tail(@),
                                      ![r].clusters_info = infos,
                                      ![r].written_members = written]
                /\ UNCHANGED snapshot
           ELSE /\ pc' = [pc EXCEPT ![r] = "done"]
                /\ ctx' = [ctx EXCEPT ![r] =
                     MlSummary([@ EXCEPT !.members = <<>>, !.plans = <<>>,
                                         !.clusters_info = infos,
                                         !.written_members = written],
                               ClusteringResult(@, infos))]
                /\ snapshot' = <<ctx[r].written_clusters, written>>
  /\ UNCHANGED <<videos, video_metrics, video_embeddings, duplicate_groups,
                 clusters, next_group_id, next_cluster_id, invocations, clock,
                 fn_in, fn_out>>

\* the process is stopped while compute_all_features or
\* generate_embeddings_for_all_videos is suspended at an await: every
\* statement executed so far is committed (db.py lines 137-141), nothing
\* else of the run happens and its locals are gone
Interrupt(r) ==
  /\ ~Startable(r)
  /\ OperationAt(pc[r]) \in {"features", "embeddings"}
  /\ pc' = [pc EXCEPT ![r] = "done"]
  /\ ctx' = [ctx EXCEPT ![r] =
       [IdleCtx EXCEPT !.entry = ctx[r].entry,
                       !.inv = ctx[r].inv,
                       !.stage = "interrupted",
                       !.interrupted_at = OperationAt(pc[r])]]
  /\ UNCHANGED <<tables, invocations, clock, snapshot, fn_in, fn_out>>

\* time passes between two requests
Tick ==
  /\ \A r \in Runs : Startable(r)
  /\ clock < invocations
  /\ clock' = clock + 1
  /\ UNCHANGED <<tables, invocations, pc, ctx, snapshot, fn_in, fn_out>>

\* the awaits of a request after its ingestion
PipelineStep(r) ==
  \/ FeatureFetch(r)
  \/ FeatureVideo(r)
  \/ EmbeddingFetch(r)
  \/ EmbeddingInsert(r)
  \/ DuplicateFetch(r)
  \/ DuplicateInsert(r)
  \/ ClusterFetch(r)
  \/ ClusterDeleteMemberships(r)
  \/ ClusterDeleteClusters(r)
  \/ ClusterInsert(r)
  \/ ClusterInsertMember(r)

\* requests served one after the other (the CLI entry points; HTTP requests
\* that do not overlap): one slot, started again after each response
Next ==
  \/ RefreshIngest("r1")
  \/ RunCli("r1")
  \/ PipelineStep("r1")
  \/ Tick

Spec == Init /\ [][Next]_vars

\* the same slot when the process can be stopped during the feature or the
\* embedding step and the pipeline is started again afterwards
NextResume ==
  \/ RefreshIngest("r1")
  \/ RunCli("r1")
  \/ PipelineStep("r1")
  \/ Interrupt("r1")

SpecResume == Init /\ [][NextResume]_vars

\* two POST /api/refresh requests in flight on the one event loop: nothing
\* in refresh_data keeps the second from starting
RefreshOnce(r) == pc[r] = "idle" /\ RefreshIngest(r)

NextConcurrent ==
  \E r \in Runs :
    \/ RefreshOnce(r)
    \/ PipelineStep(r)

SpecConcurrent == Init /\ [][NextConcurrent]_vars

-----------------------------------------------------------------------------
(* The functions on their own: the argument is drawn in the initial state  *)
(* and one action applies the function to it.                              *)

Pending == Raised("pending")

StoreAtRest ==
  /\ videos = {}
  /\ video_metrics = {}
  /\ video_embeddings = {}
  /\ duplicate_groups = {}
  /\ clusters = {}
  /\ video_clusters = {}
  /\ next_group_id = 1
  /\ next_cluster_id = 1
  /\ invocations = 0
  /\ clock = 0
  /\ pc = [r \in Runs |-> "idle"]
  /\ ctx = [r \in Runs |-> IdleCtx]
  /\ snapshot = <<{}, {}>>

store == <<videos, video_metrics, video_embeddings, duplicate_groups, clusters,
           video_clusters, next_group_id, next_cluster_id, invocations, clock,
           pc, ctx, snapshot>>

\* number of stored vectors detect_duplicates is given
MaxVectors == 3

\* tf-idf rows of three terms; the first three lie within 0.95 of the
\* third pairwise only in part, the last is the all-zero row of a text
\* without vocabulary terms
VectorProfiles ==
  {<<10, 3, 0>>, <<10, 0, 3>>, <<10, 3, 3>>, <<0, 0, 1>>, <<0, 0, 0>>}

\* 0 stands for threshold=None
Thresholds == {0, 90}

DedupInputs ==
  {[rows |-> [k \in 1..Len(e) |-> [video_id |-> k, embedding |-> e[k]]],
    threshold |-> t] :
     e \in UNION {[1..m -> VectorProfiles] : m \in 0..MaxVectors},
     t \in Thresholds}

InitDedup ==
  /\ StoreAtRest
  /\ fn_in \in DedupInputs
  /\ fn_out = Pending

\* the rows the INSERT of lines 146-155 adds, one for each emitted group
GroupRows(groups, first_id, detected_at) ==
  {[group_id |-> first_id + k - 1,
    primary_video_id |-> groups[k].primary_video_id,
    duplicate_video_ids |-> groups[k].duplicate_video_ids,
    similarity_score |-> groups[k].similarity_score,
    detected_at |-> detected_at] : k \in 1..Len(groups)}

DetectDuplicates ==
  /\ fn_out = Pending
  /\ LET found == detect_duplicates(fn_in.rows, fn_in.threshold)
         groups == IF found.ok THEN found.val ELSE <<>>
     IN /\ fn_out' = found
        /\ duplicate_groups' = duplicate_groups \cup
             GroupRows(groups, next_group_id, WallClock(clock))
        /\ next_group_id' = next_group_id + Len(groups)
  /\ UNCHANGED <<videos, video_metrics, video_embeddings, clusters,
                 video_clusters, next_cluster_id, invocations, clock, pc,
                 ctx, snapshot, fn_in>>

NextDedup == DetectDuplicates

SpecDedup == InitDedup /\ [][NextDedup]_vars

\* number of other videos in the store when one video's features are computed
MaxPeers == 3

\* hours (in HourUnits) between a publish time and the current time: after
\* the current time, 3 minutes, 10 hours, 2 days
ElapsedChoices == {-450, 5, 1000, 4800}

OwnViewCounts == {0, 7, 1000, 150000}

\* <<like_count, comment_count>>
OwnReactions == {<<0, 0>>, <<40, 5>>, <<5000, 0>>}

\* the other videos: [view_count, elapsed]; elapsed 0 is a video published at
\* the instant of the pass, on which the peer query divides by zero
PeerProfiles ==
  <<[view_count |-> 50, elapsed |-> 1000],
    [view_count |-> 0, elapsed |-> 1000],
    [view_count |-> 7, elapsed |-> 5],
    [view_count |-> 7, elapsed |-> -450],
    [view_count |-> 50, elapsed |-> 0]>>

\* the choices of up to MaxPeers other videos, as profile indices in
\* ascending order
PeerChoices ==
  UNION {{f \in [1..k -> 1..Len(PeerProfiles)] :
            \A i \in 1..k : \A j \in 1..k : i <= j => f[i] <= f[j]} :
         k \in 0..MaxPeers}

FeatVideo(id, view_count, reactions, published_ok, elapsed) ==
  [video_id |-> id, published_ok |-> published_ok,
   published_t |-> WallClock(0) - elapsed, view_count |-> view_count,
   like_count |-> reactions[1], comment_count |-> reactions[2],
   category_id |-> "0", terms |-> {}]

FeatInputs ==
  {[video |-> FeatVideo(0, vc, re, ok, el),
    tbl |-> {FeatVideo(0, vc, re, ok, el)} \cup
            {FeatVideo(i, PeerProfiles[f[i]].view_count, <<0, 0>>, TRUE,
                       PeerProfiles[f[i]].elapsed) : i \in DOMAIN f},
    now |-> WallClock(0)] :
     vc \in OwnViewCounts, re \in OwnReactions, ok \in BOOLEAN,
     el \in ElapsedChoices, f \in PeerChoices}

InitFeat ==
  /\ StoreAtRest
  /\ fn_in \in {x \in FeatInputs :
                  x.video.published_ok \/ x.video.view_count = 7}
  /\ fn_out = Pending

\* the body of the loop of compute_all_features for one video
ComputeFeatures ==
  /\ fn_out = Pending
  /\ fn_out' = MetricsRow(fn_in.video, fn_in.tbl, fn_in.now, fn_in.now)
  /\ UNCHANGED <<store, fn_in>>

NextFeat == ComputeFeatures

SpecFeat == InitFeat /\ [][NextFeat]_vars

\* corpus sizes up to which every size is tried
MaxCorpus == 12

\* larger corpus sizes, around the steps of len(video_ids) // 7
LargeCorpora == {69, 70, 77, 98, 105}

\* the corpus is made of runs of `group_size` identical vectors, vectors of
\* different runs being orthogonal
GroupSizes == {1, 2, 3, 4}

\* 0 stands for eps=None / min_samples=None
EpsChoices == {0, 50}
MinSamplesChoices == {0, 1, 2}

GroupOf(j, group_size) == (j - 1) \div group_size

GroupedSimilarity(n, group_size) ==
  [i \in 1..n |->
     [j \in 1..n |->
        IF GroupOf(i, group_size) = GroupOf(j, group_size) THEN SimUnits
        ELSE 0]]

ClusterInputs ==
  {[n |-> n, group_size |-> g, eps |-> e, min_samples |-> ms] :
     n \in (0..MaxCorpus) \cup LargeCorpora, g \in GroupSizes,
     e \in EpsChoices, ms \in MinSamplesChoices}

\* eps = eps or settings.clustering_eps
EffectiveEps(eps) == IF eps = 0 THEN clustering_eps_pct ELSE eps

\* min_samples = min_samples or settings.clustering_min_samples
EffectiveMinSamples(min_samples) ==
  IF min_samples = 0 THEN clustering_min_samples ELSE min_samples

\* cluster_videos lines 177-221 on a corpus of n vectors: what it keeps as
\* labels (algorithm "none": the early return of line 192)
cluster_labels(n, similarity_matrix, eps, min_samples) ==
  IF n < EffectiveMinSamples(min_samples)
  THEN [algorithm |-> "none", n_clusters |-> 0, labels |-> <<>>]
  ELSE LabelPlan(n, similarity_matrix, EffectiveEps(eps),
                 EffectiveMinSamples(min_samples))

InitCluster ==
  /\ StoreAtRest
  /\ fn_in \in ClusterInputs
  /\ fn_out = Pending

LabelVideos ==
  /\ fn_out = Pending
  /\ fn_out' = Returned(cluster_labels(
                 fn_in.n, GroupedSimilarity(fn_in.n, fn_in.group_size),
                 fn_in.eps, fn_in.min_samples))
  /\ UNCHANGED <<store, fn_in>>

NextCluster == LabelVideos

SpecCluster == InitCluster /\ [][NextCluster]_vars

\* invocations of generate_embeddings_for_all_videos one VideoMLProcessor
\* instance serves
MaxServed == 2

\* videos lacking a stored vector at one invocation
MaxBatch == 2

\* the texts of the videos of the store model (Terms)
TextChoices == {{1, 2}, {1, 2, 3}, {4, 5}}

Batches == UNION {[1..m -> TextChoices] : m \in 0..MaxBatch}

\* generate_embeddings_for_all_videos lines 60-71 on the texts of the
\* videos its query found lacking a vector, for a processor whose
\* vectorizer attribute is `vectorizer` (<<>>: None)
generate_embeddings_for_all_videos(vectorizer, texts) ==
  IF texts = <<>>
  THEN Returned([vectorizer |-> vectorizer, embeddings |-> <<>>])
  ELSE generate_embeddings_batch(vectorizer, texts)

\* a processor as __init__ leaves it: vectorizer None, nothing served
NewProcessor == [served |-> 0, vectorizer |-> <<>>, embeddings |-> <<>>]

InitEmbed ==
  /\ StoreAtRest
  /\ fn_in \in [batches : [1..MaxServed -> Batches]]
  /\ fn_out = Returned(NewProcessor)

\* the next invocation on the same instance
GenerateEmbeddings ==
  /\ fn_out.ok
  /\ fn_out.val.served < Len(fn_in.batches)
  /\ LET done == generate_embeddings_for_all_videos(
                   fn_out.val.vectorizer,
                   fn_in.batches[fn_out.val.served + 1])
     IN fn_out' =
          IF done.ok
          THEN Returned([served |-> fn_out.val.served + 1,
                         vectorizer |-> done.val.vectorizer,
                         embeddings |-> done.val.embeddings])
          ELSE done
  /\ UNCHANGED <<store, fn_in>>

NextEmbed == GenerateEmbeddings

SpecEmbed == InitEmbed /\ [][NextEmbed]_vars

\* videos in the store when cluster_videos of a run starts
MaxStored == 6

\* The store a run r1 finds at its cluster_videos when a second request
\* ingested the videos early + 1 .. n after r1's compute_all_features had
\* fetched its videos (refresh_data takes no lock): r1 computed metrics for
\* the first `early` videos only, its embedding step, which selects every
\* video without a vector, embedded all n, and the second request (r2) has
\* not run its own feature pass yet.  early = n is a run on its own.
LateIngestStore(n, early) ==
  LET first == {VideoRow(id, TRUE) : id \in 1..early}
      all == {VideoRow(id, TRUE) : id \in 1..n}
      rows == RowsInOrder(all)
      batch == generate_embeddings_batch(
                 <<>>, [k \in 1..n |-> rows[k].terms]).val
      started == [IdleCtx EXCEPT !.entry = "refresh"]
  IN /\ videos = all
     /\ video_metrics =
          {MetricsRow(v, first, WallClock(0), WallClock(0)).val : v \in first}
     /\ video_embeddings =
          {[video_id |-> rows[k].video_id, embedding |-> batch.embeddings[k],
            model_name |-> "tfidf", created_at |-> WallClock(0)] :
             k \in 1..n}
     /\ duplicate_groups = {}
     /\ clusters = {}
     /\ video_clusters = {}
     /\ next_group_id = 1
     /\ next_cluster_id = 1
     /\ invocations = IF early < n THEN 2 ELSE 1
     /\ clock = 0
     /\ pc = [r \in Runs |->
               IF r = "r1" THEN "dd_fetch"
               ELSE IF early < n THEN "feat_fetch" ELSE "idle"]
     /\ ctx = [r \in Runs |->
                IF r = "r1"
                THEN [started EXCEPT !.inv = 1, !.video_count = early,
                                     !.processed = early, !.emb_count = n,
                                     !.emb_videos = [k \in 1..n |-> k],
                                     !.stage = "embedded"]
                ELSE IF early < n
                THEN [started EXCEPT !.inv = 2, !.video_count = n - early]
                ELSE IdleCtx]
     /\ snapshot = <<{}, {}>>
     /\ fn_in = <<>>
     /\ fn_out = <<>>

\* store sizes at which the fixed-k fallback is taken
FallbackStores == {10, 11}

InitLateIngest ==
  \E n \in (1..MaxStored) \cup FallbackStores :
    \E early \in 1..n : LateIngestStore(n, early)

\* detect_duplicates and cluster_videos of r1, then the return of
\* run_ml_pipeline
NextLateIngest ==
  \/ DuplicateFetch("r1")
  \/ DuplicateInsert("r1")
  \/ ClusterFetch("r1")
  \/ ClusterDeleteMemberships("r1")
  \/ ClusterDeleteClusters("r1")
  \/ ClusterInsert("r1")
  \/ ClusterInsertMember("r1")

SpecLateIngest == InitLateIngest /\ [][NextLateIngest]_vars

-----------------------------------------------------------------------------
(* Properties                                                              *)

InFlight(r) == ~Startable(r)

\* C1: in every reachable state, also between two storage awaits of a
\* running cluster_videos, the clusters and video_clusters tables together
\* hold exactly the complete output of one completed clustering run (the
\* empty output before the first run), never a partially rebuilt set.
C1_TablesHoldOneCompletedRun == <<clusters, video_clusters>> = snapshot

\* C2: a whole pipeline run is a unit of mutual exclusion: of two invocations
\* of refresh_data, the later one never executes a feature, embedding, dedup
\* or clustering step while the earlier one is still in flight.
C2_PipelineRunsExcludeEachOther ==
  [][\A r \in Runs :
       PipelineStep(r) =>
         \A q \in Runs \ {r} : ~(InFlight(q) /\ ctx[q].inv < ctx[r].inv)]_vars

\* C3: within one detect_duplicates run no video id appears in more than one
\* emitted group, counting the primary position and the duplicate list.
C3_NoVideoInTwoGroups ==
  fn_out.ok =>
    \A i, j \in 1..Len(fn_out.val) :
      i # j =>
        ({fn_out.val[i].primary_video_id}
           \cup SeqToSet(fn_out.val[i].duplicate_video_ids))
        \cap ({fn_out.val[j].primary_video_id}
                \cup SeqToSet(fn_out.val[j].duplicate_video_ids)) = {}

\* C4: compute_all_features isolates per-video failures: a pass over a store
\* with a video whose published_at is malformed does not abort, and every
\* other video of the store gets its video_metrics row in that pass.
C4_FeatureFailuresIsolated ==
  \A r \in Runs :
    pc[r] \notin {"idle", "feat_fetch", "feat_loop"} =>
      /\ ctx[r].stage # "features"
      /\ \A k \in 1..Len(ctx[r].snap) :
           ctx[r].snap[k].published_ok =>
             \E m \in video_metrics :
               /\ m.video_id = ctx[r].snap[k].video_id
               /\ m.calculated_at = ctx[r].current_time

\* C5: with fewer stored vectors than min_samples, cluster_videos returns a
\* result with cluster_count = 0 and noise_count = the number of vectors.
C5_SmallCorpusResult ==
  \A r \in Runs :
    (/\ ctx[r].stage \in {"clustered", "ml_summary"}
     /\ Cardinality(video_embeddings) < clustering_min_samples)
    => /\ "cluster_count" \in DOMAIN ctx[r].clustering
       /\ ctx[r].clustering.cluster_count = 0
       /\ ctx[r].clustering.noise_count = Cardinality(video_embeddings)

\* C6: for every store content, a corpus smaller than min_samples included,
\* run_ml_pipeline does not raise, and the summary it returns has
\* embeddings_generated, duplicate_groups and a clustering entry with the
\* cluster count, the cluster list, the noise count and the total.
C6_MlPipelineNeverRaises ==
  \A r \in Runs :
    /\ ctx[r].stage \notin {"embeddings", "duplicates", "clustering",
                            "ml_summary"}
    /\ ctx[r].stage = "clustered" =>
         /\ DOMAIN ctx[r].summary =
              {"embeddings_generated", "duplicate_groups", "clustering"}
         /\ {"cluster_count", "clusters", "noise_count", "total_videos"}
              \subseteq DOMAIN ctx[r].summary.clustering

\* C7: generate_embeddings_for_all_videos is idempotent and never overwrites:
\* it inserts a vector only for the videos that have none, no stored
\* video_embeddings row ever changes, there is at most one row per video, it
\* returns the number of videos that lacked a vector, and an invocation that
\* finds no video without a vector returns 0 and writes nothing.
C7_EmbeddingsIdempotent ==
  /\ [](/\ \A e1, e2 \in video_embeddings :
             e1.video_id = e2.video_id => e1 = e2
        /\ \A r \in Runs :
             pc[r] = "emb_loop" =>
               {ctx[r].queue[k].video_id : k \in 1..Len(ctx[r].queue)}
                 = VideoIds(videos) \ VideoIds(video_embeddings))
  /\ [][/\ \A e \in video_embeddings : e \in video_embeddings'
        /\ \A r \in Runs :
             /\ (pc[r] # "dd_fetch" /\ pc'[r] = "dd_fetch") =>
                  /\ ctx'[r].emb_count = Len(ctx'[r].emb_videos)
                  /\ SeqToSet(ctx'[r].emb_videos)
                       \subseteq VideoIds(video_embeddings')
                  /\ VideoIds(videos) \subseteq VideoIds(video_embeddings')
             /\ (/\ pc[r] = "emb_fetch"
                 /\ VideoIds(videos) \subseteq VideoIds(video_embeddings)) =>
                  /\ pc'[r] = "dd_fetch"
                  /\ ctx'[r].emb_count = 0
                  /\ video_embeddings' = video_embeddings]_vars

\* a second invocation, over a store whose videos all have their vector,
\* has returned 0
C7_SecondInvocationReturnedZero ==
  /\ pc["r1"] = "dd_fetch"
  /\ ctx["r1"].inv >= 2
  /\ ctx["r1"].emb_count = 0
  /\ video_embeddings # {}

\* C8: after any sequence of generate_embeddings invocations all stored
\* vectors have one fixed dimension, whatever the vocabulary of the batch
\* that produced them, so that they can always be stacked into one matrix.
C8_OneDimension == Stackable(RowsInOrder(video_embeddings))

\* C9: when compute_all_features completes on a store of n well-formed
\* videos it returns n and video_metrics holds exactly one row for each of
\* them; after any number of passes there is at most one row per video id.
C9_OneMetricsRowPerVideo ==
  /\ \A m1, m2 \in video_metrics : m1.video_id = m2.video_id => m1 = m2
  /\ \A r \in Runs :
       pc[r] = "emb_fetch" =>
         /\ ctx[r].processed = Cardinality(videos)
         /\ VideoIds(video_metrics) = VideoIds(videos)
         /\ \A m \in video_metrics : m.calculated_at = ctx[r].current_time

\* a repeated pass, an hour after the first, has completed over rows that
\* were already there
C9_RepeatedPassCompleted ==
  /\ pc["r1"] = "emb_fetch"
  /\ ctx["r1"].inv >= 2
  /\ clock >= 1
  /\ ctx["r1"].processed >= 2

\* C10: a video_metrics row computed for a video with non-negative counts
\* has 0 <= freshness_score <= 1, engagement_rate >= 0 (0 when view_count
\* is 0) and 0 <= trend_score <= 1, on the fallback and the z-score path and
\* when the publish time lies after the current time.
C10_ScoresBounded ==
  fn_out.ok =>
    /\ 0 <= fn_out.val.freshness_score
    /\ fn_out.val.freshness_score <= ScoreUnits
    /\ fn_out.val.engagement_rate >= 0
    /\ fn_in.video.view_count = 0 => fn_out.val.engagement_rate = 0
    /\ 0 <= fn_out.val.trend_score
    /\ fn_out.val.trend_score <= ScoreUnits

\* a row computed on the z-score path for a video without views whose
\* publish time lies after the current time
C10_FutureVideoOnZScorePath ==
  /\ fn_out.ok
  /\ fn_out.val.path = "zscore"
  /\ fn_in.video.published_t > fn_in.now
  /\ fn_in.video.view_count = 0

\* C11: the peer fallback is taken iff the video's peer count is at most 2;
\* on the fallback path normalized_views = min(1, own_vph / 1000), the
\* stored peer average is the video's own views per hour (also when that is
\* 0) and the stored peer deviation is 1.0.
C11_FallbackResult ==
  fn_out.ok =>
    LET v == fn_in.video
        peer_count == Cardinality(
          {p \in fn_in.tbl :
             /\ p.video_id # v.video_id
             /\ p.category_id = v.category_id
             /\ p.published_ok
             /\ p.published_t >= v.published_t - peer_window_hours * HourUnits
             /\ p.published_t <= v.published_t + peer_window_hours * HourUnits})
        own_vph == fn_out.val.views_per_hour
        normalized_views ==
          IF own_vph >= 1000 * VphUnits THEN ScoreUnits
          ELSE (own_vph * ScoreUnits) \div (1000 * VphUnits)
        scaled_engagement ==
          IF fn_out.val.engagement_rate >= ScoreUnits \div 10 THEN ScoreUnits
          ELSE fn_out.val.engagement_rate * 10
    IN /\ (fn_out.val.path = "fallback") <=> (peer_count <= 2)
       /\ fn_out.val.path = "fallback" =>
            /\ ~fn_out.val.peer_avg_null
            /\ fn_out.val.peer_avg_views = own_vph
            /\ fn_out.val.peer_std_views = VphUnits
            /\ fn_out.val.trend_score =
                 (normalized_views * 5
                  + scaled_engagement * 3
                  + fn_out.val.freshness_score * 2) \div 10

\* C12: every views-per-hour value the Feature Calculator computes, the
\* video's own and each peer's value that enters the peer mean and standard
\* deviation, is the view count divided by at least 0.1 hours, also for a
\* video published less than 0.1 hours ago or after the current time.
C12_VphDividesByAtLeastFloor ==
  fn_out # Pending =>
    LET v == fn_in.video
        peers == PeerRows(v.video_id, v.category_id, v.published_t, fn_in.tbl)
        Floored(x) ==
          (x.view_count * VphUnits * HourUnits)
            \div Max(min_hours_elapsed, fn_in.now - x.published_t)
    IN /\ fn_out.ok => fn_out.val.views_per_hour = Floored(v)
       /\ Cardinality(peers) > peer_count_threshold =>
            \A p \in peers :
              /\ ~SqlVph(p, fn_in.now).null
              /\ SqlVph(p, fn_in.now).vph = Floored(p)

\* C13: cluster_videos discards the density result and uses fixed-k
\* partitioning iff the density pass produced fewer than 10 non-noise
\* clusters and the corpus has at least 10 vectors; then
\* k = min(14, max(10, floor(corpus_size / 7))) and every vector gets one of
\* the k labels; otherwise the density labels are kept unchanged.
C13_FixedKFallback ==
  (fn_out.ok /\ fn_out.val.algorithm # "none") =>
    LET n == fn_in.n
        eps == IF fn_in.eps = 0 THEN 30 ELSE fn_in.eps
        min_samples == IF fn_in.min_samples = 0 THEN 3 ELSE fn_in.min_samples
        \* runs of identical vectors: a run is a cluster iff it has at
        \* least min_samples members
        run_sizes == [g \in 0..((n - 1) \div fn_in.group_size) |->
                        Cardinality({j \in 1..n :
                                       GroupOf(j, fn_in.group_size) = g})]
        density_clusters ==
          Cardinality({g \in DOMAIN run_sizes : run_sizes[g] >= min_samples})
        density_labels ==
          DBSCAN(n, GroupedSimilarity(n, fn_in.group_size), eps, min_samples)
        k == IF n \div 7 <= 10 THEN 10
             ELSE IF n \div 7 >= 14 THEN 14 ELSE n \div 7
    IN /\ Cardinality(NonNoiseLabels(density_labels)) = density_clusters
       /\ (fn_out.val.algorithm = "kmeans")
            <=> (density_clusters < 10 /\ n >= 10)
       /\ fn_out.val.algorithm = "kmeans" =>
            /\ fn_out.val.n_clusters = k
            /\ \A j \in 1..n : fn_out.val.labels[j] \in 0..(k - 1)
       /\ fn_out.val.algorithm = "dbscan" =>
            fn_out.val.labels = density_labels

\* the fallback ran on a corpus large enough for a k above 10
C13_FallbackWithLargeK ==
  /\ fn_out.ok
  /\ fn_out.val.algorithm = "kmeans"
  /\ fn_out.val.n_clusters > 10

\* C14: after any sequence of completed clustering runs every video has at
\* most one video_clusters row, and a video the latest run labelled noise
\* has no video_clusters row.
C14_OneMembershipPerVideo ==
  /\ \A m1, m2 \in video_clusters : m1.video_id = m2.video_id => m1 = m2
  /\ \A r \in Runs :
       (/\ pc[r] = "done"
        /\ ctx[r].stage = "clustered"
        /\ ctx[r].total_videos >= clustering_min_samples) =>
         LET rows == RowsInOrder(video_embeddings)
             labels == FinalLabels(Len(rows), cosine_similarity(rows),
                                   clustering_eps_pct, clustering_min_samples)
         IN /\ Len(rows) = ctx[r].total_videos
            /\ \A j \in 1..Len(rows) :
                 IF labels[j] = -1
                 THEN \A m \in video_clusters : m.video_id # rows[j].video_id
                 ELSE \E m \in video_clusters : m.video_id = rows[j].video_id

\* a second clustering run has completed over a corpus with a noise video
C14_SecondRunWithNoise ==
  /\ pc["r1"] = "done"
  /\ ctx["r1"].stage = "clustered"
  /\ ctx["r1"].inv >= 2
  /\ ctx["r1"].noise_count >= 1
  /\ video_clusters # {}

\* C15: duplicate_groups is append-only: no operation deletes or modifies a
\* stored row, so the rows only grow in number, and a detect_duplicates run
\* inserts the groups it found as new rows (new group ids) whatever rows are
\* already stored, so a re-run on an unchanged corpus stores them again.
C15_DuplicateGroupsAppendOnly ==
  /\ [](/\ Cardinality(duplicate_groups) = next_group_id - 1
        /\ \A r \in Runs :
             pc[r] = "cl_fetch" =>
               LET groups == ctx[r].groups
                   first == next_group_id - Len(groups)
               IN /\ groups = DuplicateGroups(
                       [k \in 1..Cardinality(video_embeddings) |->
                          RowsInOrder(video_embeddings)[k].video_id],
                       cosine_similarity(RowsInOrder(video_embeddings)),
                       dedup_similarity_threshold_pct)
                  /\ \A k \in 1..Len(groups) :
                       \E g \in duplicate_groups :
                         /\ g.group_id = first + k - 1
                         /\ g.primary_video_id = groups[k].primary_video_id
                         /\ g.duplicate_video_ids
                              = groups[k].duplicate_video_ids
                         /\ g.similarity_score = groups[k].similarity_score)
  /\ [][duplicate_groups \subseteq duplicate_groups']_vars

\* a re-run has stored a group that an earlier run had stored already
C15_SameGroupStoredTwice ==
  /\ pc["r1"] = "cl_fetch"
  /\ ctx["r1"].inv >= 2
  /\ \E g1, g2 \in duplicate_groups :
       /\ g1.group_id < g2.group_id
       /\ g1.primary_video_id = g2.primary_video_id
       /\ g1.duplicate_video_ids = g2.duplicate_video_ids
       /\ g2.group_id >= next_group_id - Len(ctx["r1"].groups)

\* C16: when fewer than 2 vectors are stored, detect_duplicates returns an
\* empty list and leaves duplicate_groups and every other table unchanged.
C16_FewVectorsNoOp ==
  [][\A r \in Runs :
       (pc[r] = "dd_fetch" /\ Cardinality(video_embeddings) < 2) =>
         /\ pc'[r] = "cl_fetch"
         /\ ctx'[r].groups = <<>>
         /\ ctx'[r].stage = "deduplicated"
         /\ tables' = tables]_vars

\* detect_duplicates has returned over a store with a single vector
C16_ReturnedOverOneVector ==
  /\ pc["r1"] = "cl_fetch"
  /\ ctx["r1"].stage = "deduplicated"
  /\ Cardinality(video_embeddings) = 1
  /\ duplicate_groups = {}

\* C17: in every pipeline run (refresh_data, run_full_pipeline,
\* run_ml_only.main) compute_all_features has completed before
\* cluster_videos starts, and generate_embeddings_for_all_videos has
\* completed before detect_duplicates and before cluster_videos start.
C17_StagesInOrder ==
  \A r \in Runs :
    LET features_completed ==
          /\ ctx[r].snap # <<>>
          /\ ctx[r].processed = Len(ctx[r].snap)
          /\ \A k \in 1..Len(ctx[r].snap) :
               \E m \in video_metrics :
                 m.video_id = ctx[r].snap[k].video_id
        embeddings_completed ==
          /\ ctx[r].emb_count = Len(ctx[r].emb_videos)
          /\ \A k \in 1..Len(ctx[r].snap) :
               \E e \in video_embeddings :
                 e.video_id = ctx[r].snap[k].video_id
    IN /\ pc[r] \in {"emb_fetch", "emb_loop"} => features_completed
       /\ pc[r] \in {"dd_fetch", "dd_loop"} =>
            /\ features_completed
            /\ embeddings_completed
            /\ ctx[r].stage = "embedded"
       /\ pc[r] \in {"cl_fetch", "cl_delete_memberships",
                     "cl_delete_clusters", "cl_insert", "cl_members"} =>
            /\ features_completed
            /\ embeddings_completed
            /\ ctx[r].stage = "deduplicated"

\* cluster_videos is running in a run started from the command line
C17_CliRunClustering ==
  /\ pc["r1"] = "cl_insert"
  /\ ctx["r1"].entry = "ml_only"
  /\ ctx["r1"].stage = "deduplicated"

\* C18: when compute_all_features or generate_embeddings_for_all_videos was
\* interrupted after any number of its storage writes, the store is
\* resumable: the re-run that completes the operation leaves exactly one
\* video_metrics row and exactly one video_embeddings row per video, meets
\* no duplicate-key failure, and no video_embeddings row written before the
\* interruption changes.
C18_ResumableAfterInterruption ==
  /\ [](\A r \in Runs :
          ctx[r].resumed \in {"features", "embeddings"} =>
            /\ ctx[r].exc # "IntegrityError"
            /\ pc[r] = "emb_fetch" =>
                 /\ VideoIds(video_metrics) = VideoIds(videos)
                 /\ Cardinality(video_metrics) = Cardinality(videos)
            /\ pc[r] = "dd_fetch" =>
                 /\ VideoIds(video_embeddings) = VideoIds(videos)
                 /\ Cardinality(video_embeddings) = Cardinality(videos)
                 /\ VideoIds(video_metrics) = VideoIds(videos)
                 /\ Cardinality(video_metrics) = Cardinality(videos))
  /\ [][\A e \in video_embeddings : e \in video_embeddings']_vars

\* the first run was stopped after some but not all of its embedding
\* inserts, and the second run, which ingests nothing, has completed the step
C18_ResumedEmbeddingsCompleted ==
  /\ ctx["r1"].inv = 2
  /\ ctx["r1"].entry = "ml_only"
  /\ ctx["r1"].resumed = "embeddings"
  /\ pc["r1"] = "dd_fetch"
  /\ ctx["r1"].emb_count >= 1
  /\ Cardinality(video_embeddings) > ctx["r1"].emb_count

\* C19: a refresh that ingests zero videos in total answers with status
\* "warning" and every count 0, raises nothing, runs neither the feature
\* calculator nor the ML pipeline, and leaves video_metrics,
\* video_embeddings, duplicate_groups, clusters and video_clusters as they
\* were.
C19_ZeroIngestedIsWarning ==
  [][\A r \in Runs :
       (ctx'[r].entry = "refresh" /\ ctx'[r].inv # ctx[r].inv
        /\ ctx'[r].video_count = 0) =>
         /\ pc'[r] = "done"
         /\ ctx'[r].response = [status |-> "warning", videos_ingested |-> 0,
                                features_computed |-> 0,
                                clusters_created |-> 0]
         /\ ctx'[r].exc = "none"
         /\ ctx'[r].stage = "none"
         /\ ctx'[r].processed = 0
         /\ ctx'[r].summary = <<>>
         /\ UNCHANGED <<videos, video_metrics, video_embeddings,
                        duplicate_groups, clusters, video_clusters>>]_vars

\* a refresh over a store that already holds derived rows ingested nothing
\* and has answered
C19_WarningOverFilledStore ==
  /\ pc["r1"] = "done"
  /\ ctx["r1"].entry = "refresh"
  /\ ctx["r1"].video_count = 0
  /\ ctx["r1"].response.status = "warning"
  /\ video_metrics # {}
  /\ video_embeddings # {}
  /\ clusters # {}

\* the ids of one emitted group: its primary and its duplicates
GroupMembers(g) == {g.primary_video_id} \cup SeqToSet(g.duplicate_video_ids)

\* C20: for every group detect_duplicates emits, the duplicate list is not
\* empty and does not hold the primary, every duplicate is at or over the
\* threshold with the primary, similarity_score is the largest of those
\* similarities, and exactly one duplicate_groups row is inserted for each
\* returned group; two stored vectors of similarity 1.0 at threshold 0.95
\* end up together in a group, and in exactly one group when they are the
\* stored vectors.
C20_GroupsWellFormed ==
  fn_out.ok =>
    LET rows == fn_in.rows
        n == Len(rows)
        S == cosine_similarity(rows)
        threshold == EffectiveThreshold(fn_in.threshold)
        groups == fn_out.val
    IN /\ \A k \in 1..Len(groups) :
            LET g == groups[k]
                p == g.primary_video_id
                ds == SeqToSet(g.duplicate_video_ids)
            IN /\ g.duplicate_video_ids # <<>>
               /\ p \notin ds
               /\ \A d \in ds : S[p][d] >= threshold
               /\ \A d \in ds : S[p][d] <= g.similarity_score
               /\ \E d \in ds : S[p][d] = g.similarity_score
               /\ Cardinality({row \in duplicate_groups :
                    /\ row.primary_video_id = p
                    /\ row.duplicate_video_ids = g.duplicate_video_ids
                    /\ row.similarity_score = g.similarity_score}) = 1
       /\ Cardinality(duplicate_groups) = Len(groups)
       /\ threshold = dedup_similarity_threshold_pct =>
            \A i, j \in 1..n :
              (i < j /\ S[i][j] = SimUnits) =>
                /\ \E k \in 1..Len(groups) : {i, j} \subseteq GroupMembers(groups[k])
                /\ n = 2 => Len(groups) = 1

\* a group was emitted and stored whose two duplicates differ in similarity
\* to the primary, one of them being identical to it
C20_GroupWithUnequalDuplicates ==
  /\ fn_out.ok
  /\ duplicate_groups # {}
  /\ \E k \in 1..Len(fn_out.val) :
       LET g == fn_out.val[k]
           S == cosine_similarity(fn_in.rows)
       IN \E d, e \in SeqToSet(g.duplicate_video_ids) :
            /\ S[g.primary_video_id][d] = SimUnits
            /\ S[g.primary_video_id][e] < SimUnits

\* C22: on the z-score path (more than 2 peers) normalized_views is
\* (clamp((own_vph - peer_avg) / peer_std, -3, 3) + 3) / 6 with peer_avg the
\* mean of the peers' views per hour and peer_std their population standard
\* deviation around that mean, replaced by 1.0 when it is below 0.01; this
\* for every peer population, also one whose views per hour are all 0.
C22_ZScoreOverPeerMean ==
  (fn_out.ok /\ fn_out.val.path = "zscore") =>
    LET v == fn_in.video
        peers == PeerRows(v.video_id, v.category_id, v.published_t, fn_in.tbl)
        listed == PeerVphList(peers, fn_in.now)
        values == [i \in 1..Len(listed) |-> listed[i].vph]
        peer_avg == SumSeq(values) \div Len(values)
        deviation == PopulationStd(values, peer_avg)
        peer_std == IF deviation < std_floor THEN VphUnits ELSE deviation
        computed == calculate_trend_score_with_normalization(
                      v.video_id, fn_out.val.views_per_hour,
                      fn_out.val.engagement_rate, fn_out.val.freshness_score,
                      v.category_id, v.published_t, fn_in.tbl, fn_in.now).val
    IN /\ computed.peer_avg_views = peer_avg
       /\ computed.peer_std_views = peer_std
       /\ computed.normalized_views =
            ZScoreNormalized(fn_out.val.views_per_hour, peer_avg, peer_std)

\* C23: for every clusters row a completed cluster_videos run persisted, the
\* representative is a member of the cluster at minimal distance to the
\* centroid of its members, cluster_size is the number of video_clusters
\* rows carrying its cluster id, and those rows are exactly the videos that
\* received that label, one row for each.
C23_ClusterRowsMatchMembers ==
  \A r \in Runs :
    (/\ pc[r] = "done"
     /\ ctx[r].stage = "clustered"
     /\ ctx[r].total_videos >= clustering_min_samples) =>
      LET rows == RowsInOrder(video_embeddings)
          labels == FinalLabels(Len(rows), cosine_similarity(rows),
                                clustering_eps_pct, clustering_min_samples)
          Labelled(label) ==
            {rows[j].video_id : j \in {i \in 1..Len(rows) : labels[i] = label}}
          EmbeddingOf(id) ==
            (CHOOSE e \in video_embeddings : e.video_id = id).embedding
      IN /\ Cardinality(clusters) = Cardinality(NonNoiseLabels(labels))
         /\ \A c \in clusters :
              LET members == {m \in video_clusters :
                                m.cluster_id = c.cluster_id}
                  ids == VideoIds(members)
                  order == SortedSeq(ids)
                  member_rows == [k \in 1..Len(order) |-> EmbeddingOf(order[k])]
              IN /\ c.cluster_size = Cardinality(members)
                 /\ Cardinality(members) = Cardinality(ids)
                 /\ \E label \in NonNoiseLabels(labels) : ids = Labelled(label)
                 /\ c.representative_video_id \in ids
                 /\ \A id \in ids :
                      CentroidDistance2(
                        EmbeddingOf(c.representative_video_id), member_rows)
                      <= CentroidDistance2(EmbeddingOf(id), member_rows)

\* a completed run persisted a cluster whose members lie at different
\* distances from its centroid
C23_ClusterWithUnequalDistances ==
  /\ pc["r1"] = "done"
  /\ ctx["r1"].stage = "clustered"
  /\ \E c \in clusters :
       /\ c.cluster_size >= 3
       /\ \E m1, m2 \in video_clusters :
            /\ m1.cluster_id = c.cluster_id
            /\ m2.cluster_id = c.cluster_id
            /\ m1.distance_to_center < m2.distance_to_center

\* C24: every invocation of generate_embeddings_for_all_videos that embeds
\* at least one video fits a new vectorizer on exactly the texts of the
\* videos lacking a vector at that invocation, also on a VideoMLProcessor
\* instance that has served an earlier invocation.
C24_VectorizerFitAnew ==
  (fn_out.ok /\ fn_out.val.served >= 1) =>
    LET texts == fn_in.batches[fn_out.val.served]
    IN texts # <<>> =>
         /\ fn_out.val.vectorizer = fit_vectorizer(texts).val
         /\ fn_out.val.embeddings = transform(fit_vectorizer(texts).val, texts)

\* C25: in every reachable state, also while two pipeline runs interleave
\* at their storage awaits, the cluster_id of every video_clusters row is
\* the cluster_id of a clusters row that exists.
C25_MembershipsReferToClusters ==
  \A m \in video_clusters : \E c \in clusters : c.cluster_id = m.cluster_id

\* C26: for every cluster cluster_videos persists, avg_trend_score is the
\* mean trend_score of the members that have a video_metrics row and 0.0
\* when no member has one; in that case cluster_videos still completes and
\* does not fail after it deleted the old clusters and video_clusters rows.
C26_AvgTrendScoreOverMembers ==
  \A r \in Runs :
    /\ ~(ctx[r].stage = "clustering" /\ ctx[r].exc = "TypeError")
    /\ (pc[r] = "done" /\ ctx[r].stage = "clustered") =>
         \A c \in clusters :
           LET ids == {m.video_id : m \in {x \in video_clusters :
                                             x.cluster_id = c.cluster_id}}
               scored == {m \in video_metrics : m.video_id \in ids}
               scores == [k \in 1..Cardinality(scored) |->
                            (CHOOSE m \in scored :
                               m.video_id = SortedSeq(VideoIds(scored))[k])
                              .trend_score]
           IN c.avg_trend_score =
                IF scored = {} THEN 0
                ELSE SumSeq(scores) \div Cardinality(scored)

\* C27: every result of cluster_videos over at least min_samples vectors has
\* cluster_count = number of entries of clusters and (sum of the cluster
\* sizes) + noise_count = total_videos; when the fixed-k fallback was used,
\* noise_count = 0 and the video of every stored vector has a
\* video_clusters row.
C27_ResultCountsAddUp ==
  \A r \in Runs :
    (pc[r] = "done" /\ ctx[r].clustering # <<>>
     /\ Cardinality(video_embeddings) >= clustering_min_samples) =>
      LET res == ctx[r].clustering
          rows == RowsInOrder(video_embeddings)
          plan == LabelPlan(Len(rows), cosine_similarity(rows),
                            clustering_eps_pct, clustering_min_samples)
      IN /\ DOMAIN res =
              {"clusters", "cluster_count", "noise_count", "total_videos"}
         /\ res.cluster_count = Len(res.clusters)
         /\ SumSeq([k \in 1..Len(res.clusters) |-> res.clusters[k].size])
              + res.noise_count = res.total_videos
         /\ res.total_videos = Len(rows)
         /\ plan.algorithm = "kmeans" =>
              /\ res.noise_count = 0
              /\ VideoIds(video_embeddings) \subseteq VideoIds(video_clusters)

\* a result was returned by the fixed-k fallback over eleven vectors
C27_FallbackResultReturned ==
  /\ pc["r1"] = "done"
  /\ ctx["r1"].stage = "clustered"
  /\ ctx["r1"].clustering.total_videos = 11
  /\ ctx["r1"].clustering.cluster_count >= 2
  /\ Cardinality(video_clusters) = 11

C29_FallbackKWithinCorpus ==
  (fn_out.ok /\ fn_out.val.algorithm = "kmeans") =>
    /\ fn_in.n >= 10
    /\ 10 <= fn_out.val.n_clusters
    /\ fn_out.val.n_clusters <= 14
    /\ fn_out.val.n_clusters <= fn_in.n
    /\ Len(fn_out.val.labels) = fn_in.n
    /\ Cardinality({fn_out.val.labels[j] : j \in 1..fn_in.n})
         <= fn_out.val.n_clusters

\* the fallback ran on the smallest corpus that triggers it, with k equal to
\* the corpus size
C29_FallbackOverTenVectors ==
  /\ fn_out.ok
  /\ fn_out.val.algorithm = "kmeans"
  /\ fn_in.n = 10
  /\ fn_out.val.n_clusters = 10

\* C30: run_ml_only.main terminates normally whenever compute_all_features
\* and run_ml_pipeline both complete: it reads only keys the clustering
\* result holds, prints the summary and reaches close_db without raising.
C30_MlOnlyTerminatesNormally ==
  \A r \in Runs :
    (/\ pc[r] = "done"
     /\ ctx[r].entry = "ml_only"
     /\ ctx[r].clustering # <<>>
     /\ "cluster_count" \in DOMAIN ctx[r].clustering) =>
      /\ ctx[r].exc = "none"
      /\ ctx[r].stage = "clustered"
      /\ "videos_clustered" \in DOMAIN ctx[r].clustering

====
